---- MODULE Spec2Model ----
(***************************************************************************)
(* Model of codelyzer's SecurityAnalyzer (analyzers/security.py): the      *)
(* pattern scanner, the location resolver, the score accumulator and the   *)
(* project aggregator.  File contents are sequences of one-character       *)
(* strings; offsets are 0-based as in Python, so the character at offset i *)
(* of content s is s[i + 1].                                               *)
(***************************************************************************)
EXTENDS Integers, Sequences, FiniteSets, TLC

\* ------------------------------------------------------------------------
\* Characters
\* ------------------------------------------------------------------------

UpperSeq == <<"A", "B", "C", "D", "E", "F", "G", "H", "I", "J", "K", "L", "M", "N", "O", "P", "Q", "R", "S", "T", "U", "V", "W", "X", "Y", "Z">>

LowerSeq == <<"a", "b", "c", "d", "e", "f", "g", "h", "i", "j", "k", "l", "m", "n", "o", "p", "q", "r", "s", "t", "u", "v", "w", "x", "y", "z">>

Digits == {"0", "1", "2", "3", "4", "5", "6", "7", "8", "9"}

Range(q) == {q[i] : i \in DOMAIN q}

\* \w of Python's re on the ASCII characters
WordChars == Range(UpperSeq) \cup Range(LowerSeq) \cup Digits \cup {"_"}

\* \s of Python's re on the characters used here
SpaceChars == {" ", "\n", "\t"}

Quotes == {"'", "\""}

\* case folding of re.IGNORECASE
Lower(c) ==
    IF c \in Range(UpperSeq)
    THEN LowerSeq[CHOOSE i \in DOMAIN UpperSeq : UpperSeq[i] = c]
    ELSE c

\* ------------------------------------------------------------------------
\* Regular expressions: a pattern is a sequence of atoms.  An atom is a
\* character class with a repetition (a literal character is the class of
\* that one character, repeated exactly once) or a negative lookahead (?!..).
\* ------------------------------------------------------------------------

Cls(neg, cs, min, many) ==
    [k |-> "cls", neg |-> neg, cs |-> cs, min |-> min, many |-> many, re |-> <<>>]

\* a literal string
Lit(q) == [i \in DOMAIN q |-> Cls(FALSE, {q[i]}, 1, FALSE)]

\* [..] and [^..] matched once
One(cs) == <<Cls(FALSE, cs, 1, FALSE)>>

\* x?
Opt(cs) == <<Cls(FALSE, cs, 0, FALSE)>>

\* x*, [^..]*
Star(cs) == <<Cls(FALSE, cs, 0, TRUE)>>

NotStar(cs) == <<Cls(TRUE, cs, 0, TRUE)>>

\* x+, [^..]+
Plus(cs) == <<Cls(FALSE, cs, 1, TRUE)>>

NotPlus(cs) == <<Cls(TRUE, cs, 1, TRUE)>>

\* (?!re)
NegLookahead(re) ==
    <<[k |-> "nla", neg |-> FALSE, cs |-> {}, min |-> 0, many |-> FALSE, re |-> re]>>

\* whether character c belongs to the class of atom a (ic: re.IGNORECASE)
InClass(a, c, ic) ==
    LET hit == IF ic THEN (c \in a.cs \/ Lower(c) \in a.cs) ELSE c \in a.cs
    IN  IF a.neg THEN ~hit ELSE hit

RECURSIVE RunLen(_, _, _, _)
\* the number of characters from offset i on that atom a can consume at most
RunLen(a, s, i, ic) ==
    IF i >= Len(s) \/ ~InClass(a, s[i + 1], ic) THEN 0
    ELSE IF ~a.many THEN 1
    ELSE 1 + RunLen(a, s, i + 1, ic)

RECURSIVE MatchFrom(_, _, _, _, _)
RECURSIVE TryCount(_, _, _, _, _, _)
\* The backtracking match of atoms k.. of re at offset i of s: the end offset
\* of the first match in the engine's priority order (greedy repetitions give
\* up one character at a time), or -1 when there is none.
MatchFrom(re, k, s, i, ic) ==
    IF k > Len(re) THEN i
    ELSE IF re[k].k = "nla"
    THEN IF MatchFrom(re[k].re, 1, s, i, ic) # -1
         THEN -1
         ELSE MatchFrom(re, k + 1, s, i, ic)
    ELSE LET run == RunLen(re[k], s, i, ic)
         IN  IF run < re[k].min THEN -1 ELSE TryCount(re, k, s, i, ic, run)

TryCount(re, k, s, i, ic, n) ==
    LET r == MatchFrom(re, k + 1, s, i + n, ic)
    IN  IF r # -1 THEN r
        ELSE IF n > re[k].min THEN TryCount(re, k, s, i, ic, n - 1)
        ELSE -1

RECURSIVE Search(_, _, _, _)
\* the leftmost match at or after offset pos: <<start, end>>, or <<>>
Search(re, s, pos, ic) ==
    IF pos > Len(s) THEN <<>>
    ELSE LET e == MatchFrom(re, 1, s, pos, ic)
         IN  IF e # -1 THEN <<pos, e>> ELSE Search(re, s, pos + 1, ic)

\* where the scan for the next match resumes after the match m: at its end
\* (every pattern of the catalog contains a literal, so no match is empty)
ResumeAt(m) == m[2]

RECURSIVE FindIterFrom(_, _, _, _)
FindIterFrom(re, s, pos, ic) ==
    LET m == Search(re, s, pos, ic)
    IN  IF m = <<>> THEN <<>>
        ELSE <<m>> \o FindIterFrom(re, s, ResumeAt(m), ic)

\* re.finditer(pattern, content, flags): the matches, as <<start, end>> pairs
FindIter(re, s, ic) == FindIterFrom(re, s, 0, ic)

\* sub in s[from:to], Python's `in` on strings
Contains(sub, s, from, to) ==
    \E i \in from..(to - Len(sub)) :
        \A j \in 1..Len(sub) : s[i + j] = sub[j]

\* ------------------------------------------------------------------------
\* Rule catalog: the patterns of each check, in the order the code lists them
\* ------------------------------------------------------------------------

\* mutant of NonLiteralArgument: the lookahead written without its quotes
NonLiteralArgumentNoQuotes ==
    NegLookahead(Plus(WordChars)) \o NotStar({")"}) \o Lit(<<")">>)

\* (?!['\"]\w+['\"])[^\)]*\)  -- the tail shared by the three shell patterns
NonLiteralArgument ==
    NegLookahead(One(Quotes) \o Plus(WordChars) \o One(Quotes))
        \o NotStar({")"}) \o Lit(<<")">>)

\* \s*=\s*['\"][^'\"]+['\"]  -- the tail shared by the four secret patterns
AssignedLiteral ==
    Star(SpaceChars) \o Lit(<<"=">>) \o Star(SpaceChars)
        \o One(Quotes) \o NotPlus(Quotes) \o One(Quotes)

check_for_os_command_injection ==
    [type     |-> "os_command_injection",
     message  |-> "Possible command injection at line ",
     level    |-> "HIGH_RISK",
     ic       |-> FALSE,
     skip_env |-> FALSE,
     patterns |-> <<
        Lit(<<"o", "s", ".", "s", "y", "s", "t", "e", "m", "(">>) \o NonLiteralArgument,
        Lit(<<"s", "u", "b", "p", "r", "o", "c", "e", "s", "s", ".", "c", "a", "l", "l", "(">>)
            \o NonLiteralArgument,
        Lit(<<"s", "u", "b", "p", "r", "o", "c", "e", "s", "s", ".", "P", "o", "p", "e", "n", "(">>)
            \o NonLiteralArgument,
        Lit(<<"e", "v", "a", "l", "(">>) \o NotStar({")"}) \o Lit(<<")">>) >>]

check_for_sql_injection ==
    [type     |-> "sql_injection",
     message  |-> "Possible SQL injection at line ",
     level    |-> "CRITICAL",
     ic       |-> FALSE,
     skip_env |-> FALSE,
     patterns |-> <<
        Lit(<<"e", "x", "e", "c", "u", "t", "e", "(">>) \o NotStar({","}) \o Lit(<<"+">>)
            \o NotStar({")"}) \o Lit(<<")">>),
        Lit(<<"e", "x", "e", "c", "u", "t", "e", "(">>) \o NotStar({","}) \o Lit(<<"%">>)
            \o NotStar({")"}) \o Lit(<<")">>),
        Lit(<<"e", "x", "e", "c", "u", "t", "e", "(">>) \o NotStar({","}) \o Lit(<<"f">>)
            \o One(Quotes) \o NotStar(Quotes) \o Lit(<<"{">>) \o NotStar({"}"})
            \o Lit(<<"}">>) \o NotStar(Quotes) \o One(Quotes),
        Lit(<<"c", "u", "r", "s", "o", "r", ".", "e", "x", "e", "c", "u", "t", "e", "(">>)
            \o NotStar({","}) \o Lit(<<"+">>) \o NotStar({")"}) \o Lit(<<")">>) >>]

check_for_eval ==
    [type     |-> "unsafe_eval",
     message  |-> "Unsafe eval() usage at line ",
     level    |-> "HIGH_RISK",
     ic       |-> FALSE,
     skip_env |-> FALSE,
     patterns |-> <<
        Lit(<<"e", "v", "a", "l", "(">>) \o NotPlus({")"}) \o Lit(<<")">>) >>]

check_for_document_write ==
    [type     |-> "document_write",
     message  |-> "Unsafe document.write() at line ",
     level    |-> "MEDIUM_RISK",
     ic       |-> FALSE,
     skip_env |-> FALSE,
     patterns |-> <<
        Lit(<<"d", "o", "c", "u", "m", "e", "n", "t", ".", "w", "r", "i", "t", "e", "(">>)
            \o NotPlus({")"}) \o Lit(<<")">>) >>]

check_for_innerhtml ==
    [type     |-> "innerhtml",
     message  |-> "Potentially unsafe innerHTML usage at line ",
     level    |-> "MEDIUM_RISK",
     ic       |-> FALSE,
     skip_env |-> FALSE,
     patterns |-> <<
        Lit(<<".", "i", "n", "n", "e", "r", "H", "T", "M", "L">>) \o Star(SpaceChars)
            \o Lit(<<"=">>) \o Star(SpaceChars) \o NotPlus({";"}) >>]

check_for_insecure_deserialization ==
    [type     |-> "insecure_deserialization",
     message  |-> "Insecure deserialization at line ",
     level    |-> "HIGH_RISK",
     ic       |-> FALSE,
     skip_env |-> FALSE,
     patterns |-> <<
        Lit(<<"p", "i", "c", "k", "l", "e", ".", "l", "o", "a", "d", "s", "(">>),
        Lit(<<"p", "i", "c", "k", "l", "e", ".", "l", "o", "a", "d", "(">>),
        Lit(<<"y", "a", "m", "l", ".", "l", "o", "a", "d", "(">>) \o NotStar({",", ")"})
            \o Lit(<<")">>),
        Lit(<<"m", "a", "r", "s", "h", "a", "l", ".", "l", "o", "a", "d", "s", "(">>) >>]

check_for_hardcoded_secrets ==
    [type     |-> "hardcoded_secret",
     message  |-> "Possible hardcoded secret at line ",
     level    |-> "HIGH_RISK",
     ic       |-> TRUE,
     skip_env |-> TRUE,
     patterns |-> <<
        Lit(<<"p", "a", "s", "s", "w", "o", "r", "d">>) \o AssignedLiteral,
        Lit(<<"a", "p", "i">>) \o Opt({"_"}) \o Lit(<<"k", "e", "y">>) \o AssignedLiteral,
        Lit(<<"s", "e", "c", "r", "e", "t">>) \o AssignedLiteral,
        Lit(<<"t", "o", "k", "e", "n">>) \o AssignedLiteral >>]

\* mutant of analyze_python_security: the secrets check moved to the front
analyze_python_security_secrets_first ==
    <<check_for_hardcoded_secrets, check_for_os_command_injection,
      check_for_sql_injection, check_for_insecure_deserialization>>

\* the checks in the order _analyze_python_security calls them
analyze_python_security ==
    <<check_for_os_command_injection, check_for_sql_injection,
      check_for_insecure_deserialization, check_for_hardcoded_secrets>>

\* the checks in the order _analyze_js_security calls them
analyze_js_security ==
    <<check_for_eval, check_for_document_write, check_for_innerhtml,
      check_for_hardcoded_secrets>>

\* the environment-lookup idioms that make a secret match be skipped
OsEnviron == <<"o", "s", ".", "e", "n", "v", "i", "r", "o", "n">>

ProcessEnv == <<"p", "r", "o", "c", "e", "s", "s", ".", "e", "n", "v">>

\* mutant of LooksLikeEnvVar: process.env forgotten
LooksLikeEnvVarOsOnly(s, m) == Contains(OsEnviron, s, m[1], m[2])

\* `continue` of the secrets loop: the matched text names an environment lookup
LooksLikeEnvVar(s, m) ==
    Contains(OsEnviron, s, m[1], m[2]) \/ Contains(ProcessEnv, s, m[1], m[2])

\* ------------------------------------------------------------------------
\* Location resolver
\* ------------------------------------------------------------------------

RECURSIVE Split(_, _)
\* str.split(sep): the segments of s between the occurrences of sep
Split(s, sep) ==
    IF \A i \in DOMAIN s : s[i] # sep THEN <<s>>
    ELSE LET i == CHOOSE j \in DOMAIN s : s[j] = sep /\ \A h \in 1..(j - 1) : s[h] # sep
         IN  <<SubSeq(s, 1, i - 1)>> \o Split(SubSeq(s, i + 1, Len(s)), sep)

\* mutant of ColumnOf: the column counted from 0
ColumnOfZeroBased(lines) == Len(lines[Len(lines)])

ColumnOf(lines) == Len(lines[Len(lines)]) + 1

get_line_number(content, position) ==
    LET lines == Split(SubSeq(content, 1, position), "\n")
    IN  [line |-> Len(lines), column |-> ColumnOf(lines), position |-> position]

\* ------------------------------------------------------------------------
\* Severity levels and the score policy
\* ------------------------------------------------------------------------

\* The members of SecurityLevel the analyzer names; "OTHER" stands for any
\* member it does not name, which takes the else branches.
SecurityLevel == {"CRITICAL", "HIGH_RISK", "MEDIUM_RISK", "LOW_RISK", "OTHER"}

\* security_score of a fresh FileMetrics
FreshScore == 100

\* mutant of level_to_severity: the LOW_RISK branch missing
level_to_severity_without_low(level) ==
    IF level = "CRITICAL" THEN "critical"
    ELSE IF level = "HIGH_RISK" THEN "high"
    ELSE IF level = "MEDIUM_RISK" THEN "medium"
    ELSE "info"

level_to_severity(level) ==
    IF level = "CRITICAL" THEN "critical"
    ELSE IF level = "HIGH_RISK" THEN "high"
    ELSE IF level = "MEDIUM_RISK" THEN "medium"
    ELSE IF level = "LOW_RISK" THEN "low"
    ELSE "info"

\* mutant of Deduction: HIGH_RISK charged as MEDIUM_RISK
DeductionHighAsMedium(level) ==
    IF level = "CRITICAL" THEN 25
    ELSE IF level = "HIGH_RISK" THEN 5
    ELSE IF level = "MEDIUM_RISK" THEN 5
    ELSE IF level = "LOW_RISK" THEN 1
    ELSE 0

\* the amount the if/elif chain of _add_vulnerability subtracts
Deduction(level) ==
    IF level = "CRITICAL" THEN 25
    ELSE IF level = "HIGH_RISK" THEN 15
    ELSE IF level = "MEDIUM_RISK" THEN 5
    ELSE IF level = "LOW_RISK" THEN 1
    ELSE 0

\* mutant of ClampScore: the floor left out
ClampScoreMissing(s) == s

\* max(0.0, security_score)
ClampScore(s) == IF s < 0 THEN 0 ELSE s

\* the dictionary _add_vulnerability builds
Vulnerability(vuln_type, message, location, level) ==
    [type |-> vuln_type, message |-> message, location |-> location,
     level |-> level, severity |-> level_to_severity(level)]

\* ------------------------------------------------------------------------
\* The scan of one content: the matches in the order the loops visit them
\* ------------------------------------------------------------------------

\* the matches of pattern p of a check that reach _add_vulnerability
PatternMatches(chk, p, s) ==
    LET ms   == FindIter(chk.patterns[p], s, chk.ic)
        kept == SelectSeq(ms, LAMBDA m : ~(chk.skip_env /\ LooksLikeEnvVar(s, m)))
    IN  [i \in DOMAIN kept |->
            [type    |-> chk.type,
             message |-> chk.message \o ToString(get_line_number(s, kept[i][1]).line),
             location |-> get_line_number(s, kept[i][1]),
             level   |-> chk.level,
             pattern |-> p,
             end     |-> kept[i][2]]]

RECURSIVE CheckMatches(_, _, _)
\* `for pattern in patterns: for match in matches:` from pattern p on
CheckMatches(chk, p, s) ==
    IF p > Len(chk.patterns) THEN <<>>
    ELSE PatternMatches(chk, p, s) \o CheckMatches(chk, p + 1, s)

RECURSIVE RunChecks(_, _, _)
\* the checks of a language run one after the other, from check c on
RunChecks(checks, c, s) ==
    IF c > Len(checks) THEN <<>>
    ELSE CheckMatches(checks[c], 1, s) \o RunChecks(checks, c + 1, s)

\* mutant of JsLanguages: a further tag sent to the JavaScript checks
JsLanguagesAndRuby == {"javascript", "typescript", "jsx", "ruby"}

JsLanguages == {"javascript", "typescript", "jsx"}

\* the dispatch of analyze_file on the language tag
ChecksFor(language) ==
    IF language = "python" THEN analyze_python_security
    ELSE IF language \in JsLanguages THEN analyze_js_security
    ELSE <<>>

\* ------------------------------------------------------------------------
\* The files of the project
\* ------------------------------------------------------------------------

Files == <<"fA", "fB">>

FileIds == Range(Files)

Samples == <<
    \* 'password = "s3cr3t"\nos.system(user_input)'
    [language |-> "python",
     content |-> <<"p", "a", "s", "s", "w", "o", "r", "d", " ", "=", " ", "\"", "s", "3", "c", "r", "3", "t", "\"", "\n", "o", "s", ".", "s", "y", "s", "t", "e", "m", "(", "u", "s", "e", "r", "_", "i", "n", "p", "u", "t", ")">>],
    \* 'cursor.execute(a + b % c)'
    [language |-> "python",
     content |-> <<"c", "u", "r", "s", "o", "r", ".", "e", "x", "e", "c", "u", "t", "e", "(", "a", " ", "+", " ", "b", " ", "%", " ", "c", ")">>],
    \* 'eval(eval(x)\ndocument.write(y)'
    [language |-> "javascript",
     content |-> <<"e", "v", "a", "l", "(", "e", "v", "a", "l", "(", "x", ")", "\n", "d", "o", "c", "u", "m", "e", "n", "t", ".", "w", "r", "i", "t", "e", "(", "y", ")">>],
    \* 'token = "os.environ"\napi_key = \'k\''
    [language |-> "python",
     content |-> <<"t", "o", "k", "e", "n", " ", "=", " ", "\"", "o", "s", ".", "e", "n", "v", "i", "r", "o", "n", "\"", "\n", "a", "p", "i", "_", "k", "e", "y", " ", "=", " ", "'", "k", "'">>],
    \* 'el.innerHTML = x;\nAPIKEY="abc"'
    [language |-> "typescript",
     content |-> <<"e", "l", ".", "i", "n", "n", "e", "r", "H", "T", "M", "L", " ", "=", " ", "x", ";", "\n", "A", "P", "I", "K", "E", "Y", "=", "\"", "a", "b", "c", "\"">>],
    \* 'eval(x)' under a language tag without checks
    [language |-> "ruby",
     content |-> <<"e", "v", "a", "l", "(", "x", ")">>],
    \* ''
    [language |-> "python",
     content |-> <<>>],
    \* 'a\nb\neval(x)'
    [language |-> "python",
     content |-> <<"a", "\n", "b", "\n", "e", "v", "a", "l", "(", "x", ")">>],
    \* 'eval(a)eval(eval(b)'
    [language |-> "jsx",
     content |-> <<"e", "v", "a", "l", "(", "a", ")", "e", "v", "a", "l", "(", "e", "v", "a", "l", "(", "b", ")">>],
    \* 'x = 1'
    [language |-> "python",
     content |-> <<"x", " ", "=", " ", "1">>] >>

\* further contents, scanned once each: assignments to credential-like names
ExtraSamples == <<
    \* 'token = "os.environ"'
    [language |-> "python",
     content |-> <<"t", "o", "k", "e", "n", " ", "=", " ", "\"", "o", "s", ".", "e", "n", "v", "i", "r", "o", "n", "\"">>],
    \* 'token = "os_environ"'
    [language |-> "python",
     content |-> <<"t", "o", "k", "e", "n", " ", "=", " ", "\"", "o", "s", "_", "e", "n", "v", "i", "r", "o", "n", "\"">>],
    \* 'secret = "process.env"'
    [language |-> "javascript",
     content |-> <<"s", "e", "c", "r", "e", "t", " ", "=", " ", "\"", "p", "r", "o", "c", "e", "s", "s", ".", "e", "n", "v", "\"">>],
    \* 'secret = os.environ["K"]'
    [language |-> "python",
     content |-> <<"s", "e", "c", "r", "e", "t", " ", "=", " ", "o", "s", ".", "e", "n", "v", "i", "r", "o", "n", "[", "\"", "K", "\"", "]">>] >>

ScanSamples == Samples \o ExtraSamples

\* the file a record is created for when none is scanned
EmptyFile == [language |-> "python", content |-> <<>>]

\* the match list of every sample, computed once
ScanTable == [s \in Range(ScanSamples) |-> RunChecks(ChecksFor(s.language), 1, s.content)]

\* ------------------------------------------------------------------------
\* Bounds
\* ------------------------------------------------------------------------

\* analyze_file calls per file record
MaxCalls == 2

\* analyze_project calls
MaxAggregations == 2

\* direct _add_vulnerability calls on one record
MaxAdds == 5

\* length of the contents given to the location resolver
MaxLen == 5

\* ------------------------------------------------------------------------
\* State
\* ------------------------------------------------------------------------

VARIABLES
    file,                 \* per record: language tag and content
    vulns,                \* per record: security.vulnerabilities
    score,                \* per record: security.security_score
    pc,                   \* per record: where its scan stands
    cursor,               \* per record: index of the next match; 0 outside a scan
    pending,              \* per record: the arguments of the running _add_vulnerability
    calls,                \* per record: analyze_file calls made
    vulnerability_types,  \* project_metrics.security.vulnerability_types
    aggregations,         \* analyze_project calls made
    aggregated,           \* no analyze_file call since the last analyze_project
    origin,               \* history: pattern index and match end of each entry of vulns
    entry,                \* history: the record as the running _add_vulnerability found it
    first_result,         \* history: vulns when the first analyze_file returned
    loc_content,          \* the content given to _get_line_number
    loc_position,         \* the position given to _get_line_number; -1 before a call
    location,             \* the dictionary _get_line_number returned
    ast_data,             \* per record: the syntax handle of its latest analyze_file call
    security_table,       \* the table display_security_issues printed, if any
    shown                 \* no analyze_file call since the last display_security_issues

vars == <<file, vulns, score, pc, cursor, pending, calls, vulnerability_types,
          aggregations, aggregated, origin, entry, first_result,
          loc_content, loc_position, location, ast_data, security_table, shown>>

dispvars == <<security_table, shown>>

locvars == <<loc_content, loc_position, location>>

projvars == <<vulnerability_types, aggregations>>

NoPending == [type |-> "", message |-> "", location |-> [line |-> 0, column |-> 0, position |-> 0],
              level |-> "OTHER", pattern |-> 0, end |-> 0]

NoLocation == [line |-> 0, column |-> 0, position |-> 0]

\* file_metrics.security_issues: the record's vulnerability list
security_issues(f) == vulns[f]

\* the syntax handles a caller passes: None, or a parsed tree
SyntaxHandles == {"None", "tree"}

\* nothing printed
NoTable == [printed |-> FALSE, rows |-> <<>>]

InitRecords ==
    /\ vulns = [f \in FileIds |-> <<>>]
    /\ score = [f \in FileIds |-> FreshScore]
    /\ pc = [f \in FileIds |-> "idle"]
    /\ cursor = [f \in FileIds |-> 0]
    /\ pending = [f \in FileIds |-> NoPending]
    /\ calls = [f \in FileIds |-> 0]
    /\ vulnerability_types = <<>>
    /\ aggregations = 0
    /\ aggregated = FALSE
    /\ origin = [f \in FileIds |-> <<>>]
    /\ entry = [f \in FileIds |-> [vulns |-> <<>>, score |-> FreshScore]]
    /\ first_result = [f \in FileIds |-> <<>>]
    /\ ast_data = [f \in FileIds |-> "None"]
    /\ security_table = NoTable
    /\ shown = FALSE

InitResolver ==
    /\ loc_content = <<>>
    /\ loc_position = -1
    /\ location = NoLocation

Init ==
    /\ file \in [FileIds -> Range(Samples)]
    /\ InitRecords
    /\ InitResolver

\* ------------------------------------------------------------------------
\* analyze_file
\* ------------------------------------------------------------------------

\* mutant of AnalyzeFile: without a syntax handle nothing is scanned
AnalyzeFileNeedsSyntax(f, ast) ==
    /\ pc[f] = "idle"
    /\ calls[f] < MaxCalls
    /\ calls' = [calls EXCEPT ![f] = @ + 1]
    /\ aggregated' = FALSE
    /\ shown' = FALSE
    /\ ast_data' = [ast_data EXCEPT ![f] = ast]
    /\ IF file[f].content = <<>> \/ ast = "None"
       THEN /\ UNCHANGED <<pc, cursor>>
            /\ first_result' = IF calls[f] = 0 THEN [first_result EXCEPT ![f] = vulns[f]]
                               ELSE first_result
       ELSE IF file[f].language = "python" \/ file[f].language \in JsLanguages
       THEN /\ pc' = [pc EXCEPT ![f] = "scan"]
            /\ cursor' = [cursor EXCEPT ![f] = 1]
            /\ UNCHANGED first_result
       ELSE /\ UNCHANGED <<pc, cursor>>
            /\ first_result' = IF calls[f] = 0 THEN [first_result EXCEPT ![f] = vulns[f]]
                               ELSE first_result
    /\ UNCHANGED <<file, vulns, score, pending, origin, entry, projvars, locvars,
                   security_table>>

\* mutant of AnalyzeFile: a record that was scanned before is not scanned again
AnalyzeFileOncePerRecord(f, ast) ==
    /\ pc[f] = "idle"
    /\ calls[f] < MaxCalls
    /\ calls' = [calls EXCEPT ![f] = @ + 1]
    /\ aggregated' = FALSE
    /\ shown' = FALSE
    /\ ast_data' = [ast_data EXCEPT ![f] = ast]
    /\ IF file[f].content = <<>> \/ calls[f] > 0
       THEN /\ UNCHANGED <<pc, cursor>>
            /\ first_result' = IF calls[f] = 0 THEN [first_result EXCEPT ![f] = vulns[f]]
                               ELSE first_result
       ELSE IF file[f].language = "python" \/ file[f].language \in JsLanguages
       THEN /\ pc' = [pc EXCEPT ![f] = "scan"]
            /\ cursor' = [cursor EXCEPT ![f] = 1]
            /\ UNCHANGED first_result
       ELSE /\ UNCHANGED <<pc, cursor>>
            /\ first_result' = IF calls[f] = 0 THEN [first_result EXCEPT ![f] = vulns[f]]
                               ELSE first_result
    /\ UNCHANGED <<file, vulns, score, pending, origin, entry, projvars, locvars,
                   security_table>>

\* the call: the empty-content return and the dispatch on the language
AnalyzeFile(f, ast) ==
    /\ pc[f] = "idle"
    /\ calls[f] < MaxCalls
    /\ calls' = [calls EXCEPT ![f] = @ + 1]
    /\ aggregated' = FALSE
    /\ shown' = FALSE
    /\ ast_data' = [ast_data EXCEPT ![f] = ast]
    /\ IF file[f].content = <<>>
       THEN /\ UNCHANGED <<pc, cursor>>
            /\ first_result' = IF calls[f] = 0 THEN [first_result EXCEPT ![f] = vulns[f]]
                               ELSE first_result
       ELSE IF file[f].language = "python" \/ file[f].language \in JsLanguages
       THEN /\ pc' = [pc EXCEPT ![f] = "scan"]
            /\ cursor' = [cursor EXCEPT ![f] = 1]
            /\ UNCHANGED first_result
       ELSE /\ UNCHANGED <<pc, cursor>>
            /\ first_result' = IF calls[f] = 0 THEN [first_result EXCEPT ![f] = vulns[f]]
                               ELSE first_result
    /\ UNCHANGED <<file, vulns, score, pending, origin, entry, projvars, locvars,
                   security_table>>

\* the loops of the checks: the next match calls _add_vulnerability, and the
\* scan returns when the last check has run out of matches
NextMatch(f) ==
    /\ pc[f] = "scan"
    /\ IF cursor[f] <= Len(ScanTable[file[f]])
       THEN /\ pending' = [pending EXCEPT ![f] = ScanTable[file[f]][cursor[f]]]
            /\ entry' = [entry EXCEPT ![f] = [vulns |-> vulns[f], score |-> score[f]]]
            /\ pc' = [pc EXCEPT ![f] = "append"]
            /\ UNCHANGED <<cursor, first_result>>
       ELSE /\ pc' = [pc EXCEPT ![f] = "idle"]
            /\ cursor' = [cursor EXCEPT ![f] = 0]
            /\ first_result' = IF calls[f] = 1 THEN [first_result EXCEPT ![f] = vulns[f]]
                               ELSE first_result
            /\ UNCHANGED <<pending, entry>>
    /\ UNCHANGED <<file, vulns, score, calls, aggregated, origin, projvars, locvars, dispvars, ast_data>>

\* ------------------------------------------------------------------------
\* _add_vulnerability, statement by statement
\* ------------------------------------------------------------------------

\* a caller other than the checks calls _add_vulnerability on record f
AddVulnerabilityCall(f, level) ==
    /\ pc[f] = "idle"
    /\ Len(vulns[f]) < MaxAdds
    /\ pending' = [pending EXCEPT ![f] =
            [type |-> "custom", message |-> "custom finding",
             location |-> get_line_number(file[f].content, 0),
             level |-> level, pattern |-> 0, end |-> 0]]
    /\ entry' = [entry EXCEPT ![f] = [vulns |-> vulns[f], score |-> score[f]]]
    /\ pc' = [pc EXCEPT ![f] = "append"]
    /\ UNCHANGED <<file, vulns, score, cursor, calls, aggregated, origin, first_result,
                   projvars, locvars, dispvars, ast_data>>

\* mutant of AppendVulnerability: the new entry put at the front of the list
AppendVulnerabilityFront(f) ==
    /\ pc[f] = "append"
    /\ vulns' = [vulns EXCEPT ![f] =
            <<Vulnerability(pending[f].type, pending[f].message,
                            pending[f].location, pending[f].level)>> \o @]
    /\ origin' = [origin EXCEPT ![f] =
            <<[pattern |-> pending[f].pattern, end |-> pending[f].end]>> \o @]
    /\ pc' = [pc EXCEPT ![f] = "deduct"]
    /\ UNCHANGED <<file, score, cursor, pending, calls, aggregated, entry, first_result,
                   projvars, locvars, dispvars, ast_data>>

\* file_metrics.security.vulnerabilities.append(vulnerability)
AppendVulnerability(f) ==
    /\ pc[f] = "append"
    /\ vulns' = [vulns EXCEPT ![f] =
            Append(@, Vulnerability(pending[f].type, pending[f].message,
                                    pending[f].location, pending[f].level))]
    /\ origin' = [origin EXCEPT ![f] =
            Append(@, [pattern |-> pending[f].pattern, end |-> pending[f].end])]
    /\ pc' = [pc EXCEPT ![f] = "deduct"]
    /\ UNCHANGED <<file, score, cursor, pending, calls, aggregated, entry, first_result,
                   projvars, locvars, dispvars, ast_data>>

\* mutant of DeductScore: one score shared by all the records
DeductScoreShared(f) ==
    /\ pc[f] = "deduct"
    /\ score' = [score EXCEPT ![Files[1]] = @ - Deduction(pending[f].level)]
    /\ pc' = [pc EXCEPT ![f] = "clamp"]
    /\ UNCHANGED <<file, vulns, cursor, pending, calls, aggregated, origin, entry,
                   first_result, projvars, locvars, dispvars, ast_data>>

\* mutant of DeductScore: a deduction larger than the score is dropped
DeductScoreIfAffordable(f) ==
    /\ pc[f] = "deduct"
    /\ score' = [score EXCEPT ![f] =
            IF @ >= Deduction(pending[f].level) THEN @ - Deduction(pending[f].level) ELSE @]
    /\ pc' = [pc EXCEPT ![f] = "clamp"]
    /\ UNCHANGED <<file, vulns, cursor, pending, calls, aggregated, origin, entry,
                   first_result, projvars, locvars, dispvars, ast_data>>

\* security_score -= 25 / 15 / 5 / 1
DeductScore(f) ==
    /\ pc[f] = "deduct"
    /\ score' = [score EXCEPT ![f] = @ - Deduction(pending[f].level)]
    /\ pc' = [pc EXCEPT ![f] = "clamp"]
    /\ UNCHANGED <<file, vulns, cursor, pending, calls, aggregated, origin, entry,
                   first_result, projvars, locvars, dispvars, ast_data>>

\* security_score = max(0.0, security_score), and the return to the caller
ClampAndReturn(f) ==
    /\ pc[f] = "clamp"
    /\ score' = [score EXCEPT ![f] = ClampScore(@)]
    /\ IF cursor[f] = 0
       THEN /\ pc' = [pc EXCEPT ![f] = "idle"]
            /\ UNCHANGED cursor
       ELSE /\ pc' = [pc EXCEPT ![f] = "scan"]
            /\ cursor' = [cursor EXCEPT ![f] = @ + 1]
    /\ UNCHANGED <<file, vulns, pending, calls, aggregated, origin, entry, first_result,
                   projvars, locvars, dispvars, ast_data>>

\* ------------------------------------------------------------------------
\* analyze_project
\* ------------------------------------------------------------------------

\* mutant of CountType: a type already present is not counted again
CountTypeOnce(acc, vuln_type) ==
    IF vuln_type \notin DOMAIN acc THEN acc @@ (vuln_type :> 1) ELSE acc

\* if vuln_type not in vulnerability_types: ... = 0;  ... += 1
CountType(acc, vuln_type) ==
    LET started == IF vuln_type \notin DOMAIN acc THEN acc @@ (vuln_type :> 0) ELSE acc
    IN  [started EXCEPT ![vuln_type] = @ + 1]

RECURSIVE TallyIssues(_, _, _)
\* `for vuln in file_metrics.security_issues:` from entry i on
TallyIssues(acc, issues, i) ==
    IF i > Len(issues) THEN acc
    ELSE TallyIssues(CountType(acc, issues[i].type), issues, i + 1)

RECURSIVE TallyFiles(_, _)
\* `for file_metrics in project_metrics.file_metrics:` from file k on
TallyFiles(acc, k) ==
    IF k > Len(Files) THEN acc
    ELSE TallyFiles(TallyIssues(acc, security_issues(Files[k]), 1), k + 1)

\* mutant of StartMapping: the new counts merged into the previous mapping
StartMappingMerge(old) == old

\* the dictionary the aggregation starts from
StartMapping(old) == <<>>

\* The whole call.  It runs when no scan is in flight: the aggregator reads
\* the finished per-file lists.
AnalyzeProject ==
    /\ \A f \in FileIds : pc[f] = "idle"
    /\ aggregations < MaxAggregations
    /\ vulnerability_types' = TallyFiles(StartMapping(vulnerability_types), 1)
    /\ aggregations' = aggregations + 1
    /\ aggregated' = TRUE
    /\ UNCHANGED <<file, vulns, score, pc, cursor, pending, calls, origin, entry,
                   first_result, locvars, dispvars, ast_data>>

\* ------------------------------------------------------------------------
\* display_security_issues (console.py)
\* ------------------------------------------------------------------------

\* the characters of the type identifiers
TypeChars ==
    "os_command_injection" :> <<"o", "s", "_", "c", "o", "m", "m", "a", "n", "d", "_", "i", "n", "j", "e", "c", "t", "i", "o", "n">> @@
    "sql_injection" :> <<"s", "q", "l", "_", "i", "n", "j", "e", "c", "t", "i", "o", "n">> @@
    "insecure_deserialization" :> <<"i", "n", "s", "e", "c", "u", "r", "e", "_", "d", "e", "s", "e", "r", "i", "a", "l", "i", "z", "a", "t", "i", "o", "n">> @@
    "hardcoded_secret" :> <<"h", "a", "r", "d", "c", "o", "d", "e", "d", "_", "s", "e", "c", "r", "e", "t">> @@
    "unsafe_eval" :> <<"u", "n", "s", "a", "f", "e", "_", "e", "v", "a", "l">> @@
    "document_write" :> <<"d", "o", "c", "u", "m", "e", "n", "t", "_", "w", "r", "i", "t", "e">> @@
    "innerhtml" :> <<"i", "n", "n", "e", "r", "h", "t", "m", "l">> @@
    "custom" :> <<"c", "u", "s", "t", "o", "m">>

Upper(c) ==
    IF c \in Range(LowerSeq)
    THEN UpperSeq[CHOOSE i \in DOMAIN LowerSeq : LowerSeq[i] = c]
    ELSE c

IsLetter(c) == c \in Range(LowerSeq) \cup Range(UpperSeq)

\* str.replace(old, new) for single characters
Replace(s, old, new) == [i \in DOMAIN s |-> IF s[i] = old THEN new ELSE s[i]]

\* str.title(): a letter that starts a run of letters in upper case, the
\* other letters in lower case
Title(s) ==
    [i \in DOMAIN s |->
        IF ~IsLetter(s[i]) THEN s[i]
        ELSE IF i = 1 \/ ~IsLetter(s[i - 1]) THEN Upper(s[i])
        ELSE Lower(s[i])]

\* issue_type.replace('_', ' ').title()
IssueLabel(issue_type) == Title(Replace(TypeChars[issue_type], "_", " "))

\* security_counts[issue_type] += 1 on a Counter, kept as the sequence of
\* its <<key, count>> items in insertion order
CounterAdd(ctr, issue_type) ==
    IF \E k \in DOMAIN ctr : ctr[k][1] = issue_type
    THEN [k \in DOMAIN ctr |->
            IF ctr[k][1] = issue_type THEN <<ctr[k][1], ctr[k][2] + 1>> ELSE ctr[k]]
    ELSE Append(ctr, <<issue_type, 1>>)

RECURSIVE CountIssues(_, _, _)
\* `for issue in file_metrics.security_issues:` from entry i on
CountIssues(ctr, issues, i) ==
    IF i > Len(issues) THEN ctr
    ELSE CountIssues(CounterAdd(ctr, issues[i].type), issues, i + 1)

RECURSIVE CountFiles(_, _)
\* `for file_metrics in metrics.file_metrics:` from file k on
CountFiles(ctr, k) ==
    IF k > Len(Files) THEN ctr
    ELSE CountFiles(CountIssues(ctr, security_issues(Files[k]), 1), k + 1)

RECURSIVE MostCommon(_)
\* Counter.most_common(): the items by decreasing count, items of equal
\* count in insertion order
MostCommon(ctr) ==
    IF ctr = <<>> THEN <<>>
    ELSE LET k == CHOOSE i \in DOMAIN ctr :
                    /\ \A j \in DOMAIN ctr : ctr[j][2] <= ctr[i][2]
                    /\ \A j \in 1..(i - 1) : ctr[j][2] < ctr[i][2]
         IN  <<ctr[k]>> \o MostCommon(SubSeq(ctr, 1, k - 1) \o SubSeq(ctr, k + 1, Len(ctr)))

\* security_table.add_row(label, str(count)) for every item
TableRows(items) ==
    [k \in DOMAIN items |-> <<IssueLabel(items[k][1]), ToString(items[k][2])>>]

\* The whole call: the table is built and printed when some file has an
\* issue.  It runs when no scan is in flight.
DisplaySecurityIssues ==
    /\ \A f \in FileIds : pc[f] = "idle"
    /\ IF \E f \in FileIds : security_issues(f) # <<>>
       THEN security_table' = [printed |-> TRUE,
                               rows |-> TableRows(MostCommon(CountFiles(<<>>, 1)))]
       ELSE security_table' = NoTable
    /\ shown' = TRUE
    /\ UNCHANGED <<file, vulns, score, pc, cursor, pending, calls, aggregated, origin,
                   entry, first_result, projvars, locvars, ast_data>>

\* ------------------------------------------------------------------------
\* _get_line_number called on its own
\* ------------------------------------------------------------------------

LocAlphabet == {"a", "\n"}

ResolveLocation ==
    \E p \in 0..Len(loc_content) :
        /\ loc_position' = p
        /\ location' = get_line_number(loc_content, p)
        /\ UNCHANGED <<file, vulns, score, pc, cursor, pending, calls, aggregated,
                       origin, entry, first_result, projvars, loc_content,
                       dispvars, ast_data>>

\* ------------------------------------------------------------------------
\* Specifications
\* ------------------------------------------------------------------------

\* The scanner and the aggregator: every record is scanned up to MaxCalls
\* times, the statements of concurrent scans interleave, and analyze_project
\* runs between scans.  The scans are called without a syntax handle here;
\* SpecScan varies the handle.
Next ==
    \/ \E f \in FileIds : AnalyzeFile(f, "None")
    \/ \E f \in FileIds : NextMatch(f)
    \/ \E f \in FileIds : AppendVulnerability(f)
    \/ \E f \in FileIds : DeductScore(f)
    \/ \E f \in FileIds : ClampAndReturn(f)
    \/ AnalyzeProject

Spec == Init /\ [][Next]_vars

\* The score accumulator: _add_vulnerability called with any severities on
\* one fresh record.
InitAcc ==
    /\ file = [f \in FileIds |-> EmptyFile]
    /\ InitRecords
    /\ InitResolver

AccFile == Files[1]

NextAcc ==
    \/ \E level \in SecurityLevel : AddVulnerabilityCall(AccFile, level)
    \/ AppendVulnerability(AccFile)
    \/ DeductScore(AccFile)
    \/ ClampAndReturn(AccFile)

SpecAcc == InitAcc /\ [][NextAcc]_vars

\* The location resolver: any content over LocAlphabet up to MaxLen
\* characters, any position in it.
InitLoc ==
    /\ file = [f \in FileIds |-> EmptyFile]
    /\ InitRecords
    /\ loc_content \in UNION {[1..n -> LocAlphabet] : n \in 0..MaxLen}
    /\ loc_position = -1
    /\ location = NoLocation

NextLoc == ResolveLocation

SpecLoc == InitLoc /\ [][NextLoc]_vars

\* One scan pass: every record is scanned at most once, with or without a
\* syntax handle, the statements of the scans interleave, and the security
\* table is displayed between scans.
InitScan ==
    /\ file \in [FileIds -> Range(ScanSamples)]
    /\ InitRecords
    /\ InitResolver

\* the one analyze_file call a scan pass makes on record f
ScanOnce(f, ast) == calls[f] = 0 /\ AnalyzeFile(f, ast)

NextScan ==
    \/ \E f \in FileIds, ast \in SyntaxHandles : ScanOnce(f, ast)
    \/ \E f \in FileIds : NextMatch(f)
    \/ \E f \in FileIds : AppendVulnerability(f)
    \/ \E f \in FileIds : DeductScore(f)
    \/ \E f \in FileIds : ClampAndReturn(f)
    \/ DisplaySecurityIssues

SpecScan == InitScan /\ [][NextScan]_vars

\* A record scanned again: analyze_file takes the content as a parameter, so
\* the caller may pass one record with one content and later with another.
RescanSamples == <<Samples[1], Samples[3], Samples[6], Samples[7], Samples[10]>>

\* the caller reads another content for the record's next analyze_file call
NewContent(f, s) ==
    /\ pc[f] = "idle"
    /\ calls[f] = 1
    /\ file[f] # s
    /\ file' = [file EXCEPT ![f] = s]
    /\ UNCHANGED <<vulns, score, pc, cursor, pending, calls, aggregated, origin, entry,
                   first_result, projvars, locvars, dispvars, ast_data>>

InitRescan ==
    /\ file \in [FileIds -> Range(RescanSamples)]
    /\ InitRecords
    /\ InitResolver

NextRescan ==
    \/ \E f \in FileIds : AnalyzeFile(f, "None")
    \/ \E f \in FileIds : NextMatch(f)
    \/ \E f \in FileIds : AppendVulnerability(f)
    \/ \E f \in FileIds : DeductScore(f)
    \/ \E f \in FileIds : ClampAndReturn(f)
    \/ \E f \in FileIds, s \in Range(RescanSamples) : NewContent(f, s)

SpecRescan == InitRescan /\ [][NextRescan]_vars

\* ------------------------------------------------------------------------
\* Properties
\* ------------------------------------------------------------------------

\* record f is inside a call of _add_vulnerability
MidCall(f) == pc[f] \in {"append", "deduct", "clamp"}

Max(a, b) == IF a >= b THEN a ELSE b

\* the penalty table of the specification
Penalty(level) ==
    CASE level = "CRITICAL" -> 25
      [] level = "HIGH_RISK" -> 15
      [] level = "MEDIUM_RISK" -> 5
      [] level = "LOW_RISK" -> 1
      [] OTHER -> 0

RECURSIVE SumPenalties(_)
SumPenalties(vs) ==
    IF vs = <<>> THEN 0 ELSE Penalty(Head(vs).level) + SumPenalties(Tail(vs))

NamedLevels == {"CRITICAL", "HIGH_RISK", "MEDIUM_RISK", "LOW_RISK"}

\* C1: whenever no _add_vulnerability call is running on a record that
\* started at 100, its score lies in 0..100, and it is exactly 0 once the
\* penalties of the recorded vulnerabilities add up to 100 or more.
C1_ScoreInRange ==
    \A f \in FileIds :
        ~MidCall(f) =>
            /\ 0 <= score[f]
            /\ score[f] <= 100
            /\ (SumPenalties(vulns[f]) >= 100 => score[f] = 0)

\* C1 witness: the recorded penalties overshoot 100 and the score sits at 0
C1_Witness ==
    \E f \in FileIds :
        /\ ~MidCall(f)
        /\ SumPenalties(vulns[f]) > 100
        /\ score[f] = 0

\* C2: a returned _add_vulnerability call of severity S has taken the score
\* from s, its value at the call, to max(0, s - p(S)); the first call on a
\* fresh record leaves 75, 85, 95 or 99.
C2_Deduction ==
    \A f \in FileIds :
        (~MidCall(f) /\ vulns[f] # <<>> /\ vulns[f][Len(vulns[f])].level \in NamedLevels) =>
            LET S == vulns[f][Len(vulns[f])].level
            IN  /\ score[f] = Max(0, entry[f].score - Penalty(S))
                /\ Len(vulns[f]) = 1 =>
                      score[f] = CASE S = "CRITICAL" -> 75
                                   [] S = "HIGH_RISK" -> 85
                                   [] S = "MEDIUM_RISK" -> 95
                                   [] S = "LOW_RISK" -> 99

\* C2 witness: a HIGH_RISK finding recorded when the score was below its
\* penalty, so that the floor decided the result
C2_Witness ==
    \E f \in FileIds :
        /\ ~MidCall(f)
        /\ vulns[f] # <<>>
        /\ vulns[f][Len(vulns[f])].level = "HIGH_RISK"
        /\ entry[f].score \in 1..14
        /\ score[f] = 0

\* C3: between calls the score is max(0, 100 - the sum of the penalties of
\* the recorded severities): a function of the multiset of severities, with
\* every recorded vulnerability deducted and every deduction recorded.
C3_ScoreIsSum ==
    \A f \in FileIds :
        ~MidCall(f) => score[f] = Max(0, FreshScore - SumPenalties(vulns[f]))

\* C3 witness: severities recorded in an order that is not sorted, the last
\* one arriving with the score below its penalty
C3_Witness ==
    \E f \in FileIds :
        /\ ~MidCall(f)
        /\ Len(vulns[f]) = 5
        /\ vulns[f][1].level = "MEDIUM_RISK"
        /\ vulns[f][2].level = "CRITICAL"
        /\ vulns[f][5].level = "CRITICAL"
        /\ entry[f].score \in 1..24
        /\ score[f] = 0

\* C4: the location resolved for position p of a content has position p,
\* line 1 + the number of newlines before p, and column 1 + the number of
\* characters between the last newline before p (or the start) and p.
C4_Location ==
    loc_position >= 0 =>
        LET p       == loc_position
            newlines == {i \in 1..p : loc_content[i] = "\n"}
            lastNL  == IF newlines = {} THEN 0
                       ELSE CHOOSE i \in newlines : \A j \in newlines : j <= i
        IN  /\ location.position = p
            /\ location.line = 1 + Cardinality(newlines)
            /\ location.column = 1 + (p - lastNL)

\* C4 witness: the position of the first character of the third line
\* resolves to line 3, column 1
C4_Witness ==
    /\ loc_position >= 2
    /\ loc_position < Len(loc_content)
    /\ loc_content[loc_position] = "\n"
    /\ loc_content[loc_position + 1] # "\n"
    /\ Cardinality({i \in 1..loc_position : loc_content[i] = "\n"}) = 2
    /\ location.line = 3
    /\ location.column = 1

\* the order of the checks as the specification lists it
ClaimedOrder(language) ==
    IF language = "python"
    THEN <<"os_command_injection", "sql_injection", "insecure_deserialization",
           "hardcoded_secret">>
    ELSE <<"unsafe_eval", "document_write", "innerhtml", "hardcoded_secret">>

RankIn(order, type) == CHOOSE r \in DOMAIN order : order[r] = type

\* C5: the list a first scan builds follows the order of the checks, inside
\* a check the order of its patterns, and inside a pattern the matches come
\* at strictly increasing positions, each starting at or after the end of
\* the one before.
C5_RuleOrder ==
    \A f \in FileIds :
        calls[f] = 1 =>
            LET order == ClaimedOrder(file[f].language)
                v     == vulns[f]
                o     == origin[f]
            IN  /\ Len(o) = Len(v)
                /\ \A i \in DOMAIN v : v[i].type \in Range(order)
                /\ \A i, j \in DOMAIN v :
                      i < j =>
                        /\ RankIn(order, v[i].type) <= RankIn(order, v[j].type)
                        /\ v[i].type = v[j].type => o[i].pattern <= o[j].pattern
                        /\ (v[i].type = v[j].type /\ o[i].pattern = o[j].pattern) =>
                              /\ v[i].location.position < v[j].location.position
                              /\ o[i].end <= v[j].location.position

\* C5 witness: a finished first scan with two matches of one pattern, and one
\* with a later check's match lying before an earlier check's match
C5_Witness ==
    /\ \E f \in FileIds :
          /\ calls[f] = 1 /\ pc[f] = "idle" /\ Len(vulns[f]) >= 2
          /\ vulns[f][1].type = vulns[f][2].type
          /\ origin[f][1].pattern = origin[f][2].pattern
    /\ \E f \in FileIds :
          /\ calls[f] = 1 /\ pc[f] = "idle" /\ Len(vulns[f]) >= 2
          /\ vulns[f][1].type # vulns[f][2].type
          /\ vulns[f][1].location.position > vulns[f][2].location.position

IsPrefix(a, b) == Len(a) <= Len(b) /\ SubSeq(b, 1, Len(a)) = a

\* C6: every step leaves each list as it is or appends one entry at its end,
\* and the score a record shows between _add_vulnerability calls never
\* increases: a returning call leaves at most the score it found.
C6_Monotone ==
    [][\A f \in FileIds :
          /\ IsPrefix(vulns[f], vulns'[f])
          /\ Len(vulns'[f]) <= Len(vulns[f]) + 1
          /\ (pc'[f] \notin {"append", "deduct", "clamp"}) =>
                score'[f] <= (IF MidCall(f) THEN entry[f].score ELSE score[f])]_vars

\* C6 witness: a record between calls with several entries, the last call
\* having lowered the score
C6_Witness ==
    \E f \in FileIds :
        /\ ~MidCall(f)
        /\ Len(vulns[f]) >= 2
        /\ entry[f].vulns = SubSeq(vulns[f], 1, Len(vulns[f]) - 1)
        /\ score[f] < entry[f].score

\* the vulnerability types of the catalog
AllTypes ==
    {analyze_python_security[c].type : c \in DOMAIN analyze_python_security}
        \cup {analyze_js_security[c].type : c \in DOMAIN analyze_js_security}

\* the entries of type t the scanner recorded, over all files
Occurrences(t) ==
    UNION {{<<f, i>> : i \in {k \in DOMAIN vulns[f] : vulns[f][k].type = t}} : f \in FileIds}

\* C7: after analyze_project ran on the finished scans, vulnerability_types
\* maps every type to the number of its entries over all files, has no key
\* for a type without entries, and is empty when there is no entry at all.
C7_Aggregation ==
    aggregated =>
        /\ DOMAIN vulnerability_types \subseteq AllTypes
        /\ \A t \in AllTypes :
              IF Occurrences(t) = {}
              THEN t \notin DOMAIN vulnerability_types
              ELSE /\ t \in DOMAIN vulnerability_types
                   /\ vulnerability_types[t] = Cardinality(Occurrences(t))
        /\ (\A f \in FileIds : vulns[f] = <<>>) => vulnerability_types = <<>>

\* C7 witness: a type counted over both files
C7_Witness ==
    /\ aggregated
    /\ \E t \in DOMAIN vulnerability_types :
          /\ vulnerability_types[t] >= 2
          /\ \A f \in FileIds : \E i \in DOMAIN vulns[f] : vulns[f][i].type = t

\* the tally of the present per-file results
CurrentTally ==
    [t \in {u \in AllTypes : Occurrences(u) # {}} |-> Cardinality(Occurrences(t))]

\* C8: every analyze_project call leaves the tally of the present per-file
\* results, whatever the mapping held before; on results that did not change
\* since the previous call the mapping stays as it is.
C8_Rebuild ==
    [][aggregations' = aggregations + 1 =>
          /\ vulnerability_types' = CurrentTally
          /\ aggregated => vulnerability_types' = vulnerability_types]_vars

\* C8 witness: a second aggregation, over results that hold findings
C8_Witness ==
    /\ aggregations >= 2
    /\ aggregated
    /\ vulnerability_types # <<>>
    /\ \E f \in FileIds : calls[f] = 2 /\ vulns[f] # <<>>

\* C9: the second analyze_file on a record with the same content leaves the
\* list of the first call twice over, and the score max(0, 100 - 2P), P the
\* penalties of the first call's list.
C9_DoubleCount ==
    \A f \in FileIds :
        (pc[f] = "idle" /\ calls[f] = 2) =>
            /\ vulns[f] = first_result[f] \o first_result[f]
            /\ score[f] = Max(0, FreshScore - 2 * SumPenalties(first_result[f]))

\* C9 witness: a second scan returned, its findings doubled past the floor
C9_Witness ==
    \E f \in FileIds :
        /\ pc[f] = "idle"
        /\ calls[f] = 2
        /\ first_result[f] # <<>>
        /\ SumPenalties(first_result[f]) < 100
        /\ 2 * SumPenalties(first_result[f]) > 100

RECURSIVE AddAll(_, _, _)
\* _add_vulnerability run to completion for the matches from i on
AddAll(rec, matches, i) ==
    IF i > Len(matches) THEN rec
    ELSE AddAll([vulns |-> Append(rec.vulns,
                              Vulnerability(matches[i].type, matches[i].message,
                                            matches[i].location, matches[i].level)),
                 score |-> Max(0, rec.score - Penalty(matches[i].level))],
                matches, i + 1)

RECURSIVE ScannedAlone(_, _)
\* the record of a file after n scans with nothing else running
ScannedAlone(fr, n) ==
    IF n = 0 THEN [vulns |-> <<>>, score |-> FreshScore]
    ELSE AddAll(ScannedAlone(fr, n - 1), ScanTable[fr], 1)

\* C10: a step changes the list and the score of no record but the one whose
\* scan takes it, and whenever a record's scan has returned, its list and
\* score are those of scanning the file alone, however the statements of
\* the other scans were interleaved.
C10_Isolation ==
    [][/\ \A g \in FileIds :
             (pc'[g] = pc[g] /\ calls'[g] = calls[g]) =>
                 (vulns'[g] = vulns[g] /\ score'[g] = score[g])
       /\ \A f \in FileIds :
             pc'[f] = "idle" =>
                 /\ vulns'[f] = ScannedAlone(file'[f], calls'[f]).vulns
                 /\ score'[f] = ScannedAlone(file'[f], calls'[f]).score]_vars

\* C10 witness: two scans inside _add_vulnerability at the same time, one
\* about to subtract and one about to clamp
C10_Witness ==
    \E f, g \in FileIds :
        /\ f # g
        /\ pc[f] = "deduct"
        /\ pc[g] = "clamp"
        /\ cursor[f] > 0
        /\ cursor[g] > 0

\* record f holds the result of one finished scan of a fresh record
ScannedOnce(f) == pc[f] = "idle" /\ calls[f] = 1

\* C11: two finished scans of fresh records with the same language tag and
\* content hold the same list (order and every field) and the same score,
\* whatever syntax handle either was called with.
C11_Deterministic ==
    \A f, g \in FileIds :
        (ScannedOnce(f) /\ ScannedOnce(g) /\ file[f] = file[g]) =>
            /\ vulns[f] = vulns[g]
            /\ score[f] = score[g]

\* C11 witness: the same file scanned with a tree and without one, with findings
C11_Witness ==
    \E f, g \in FileIds :
        /\ ScannedOnce(f) /\ ScannedOnce(g)
        /\ file[f] = file[g]
        /\ ast_data[f] = "None" /\ ast_data[g] = "tree"
        /\ vulns[f] # <<>>

\* the language tags of the specification
RecognizedLanguages == {"python", "javascript", "typescript", "jsx"}

\* the rules the specification gives a recognized language
RulesOf(language) ==
    IF language = "python" THEN analyze_python_security ELSE analyze_js_security

\* some substring of s matches some pattern of the rules
SomePatternMatches(rules, s) ==
    \E c \in DOMAIN rules : \E p \in DOMAIN rules[c].patterns : \E pos \in 0..Len(s) :
        MatchFrom(rules[c].patterns[p], 1, s, pos, rules[c].ic) # -1

\* per sample: a scan of it has nothing to match
NoMatch ==
    [s \in Range(ScanSamples) |->
        \/ s.content = <<>>
        \/ s.language \notin RecognizedLanguages
        \/ ~SomePatternMatches(RulesOf(s.language), s.content)]

\* the step returns from the first analyze_file call on record f
FirstReturn(f) ==
    /\ calls'[f] = 1
    /\ pc'[f] = "idle"
    /\ (calls[f] = 0 \/ pc[f] # "idle")

\* C12: while the content of a record is empty, is of a language tag that is
\* not recognized or matches no pattern of its language, no step changes the
\* record's list or score, and the return from the scan of a fresh record
\* leaves the empty list and the score 100.
C12_NoMatch ==
    [][\A f \in FileIds :
          NoMatch[file[f]] =>
              /\ vulns'[f] = vulns[f]
              /\ score'[f] = score[f]
              /\ FirstReturn(f) => (vulns'[f] = <<>> /\ score'[f] = FreshScore)]_vars

\* C12 witness: a record with findings scanned again with a content of an
\* unrecognized tag that the JavaScript patterns would match, and a fresh
\* record scanned with a non-empty content of a recognized language that
\* matches nothing
C12_Witness ==
    /\ \E f \in FileIds :
          /\ pc[f] = "idle" /\ calls[f] = 2
          /\ vulns[f] # <<>>
          /\ file[f].language \notin RecognizedLanguages
          /\ SomePatternMatches(analyze_js_security, file[f].content)
    /\ \E g \in FileIds :
          /\ ScannedOnce(g)
          /\ file[g].language \in RecognizedLanguages
          /\ file[g].content # <<>>
          /\ NoMatch[file[g]]

\* per sample: the matches of the four credential patterns, as <<start, end>>
CredentialMatches ==
    [s \in Range(ScanSamples) |->
        FindIter(check_for_hardcoded_secrets.patterns[1], s.content, TRUE)
            \o FindIter(check_for_hardcoded_secrets.patterns[2], s.content, TRUE)
            \o FindIter(check_for_hardcoded_secrets.patterns[3], s.content, TRUE)
            \o FindIter(check_for_hardcoded_secrets.patterns[4], s.content, TRUE)]

\* the matched text s[m[1]:m[2]] holds os.environ or process.env
HasEnvIdiom(s, m) ==
    \/ Contains(<<"o", "s", ".", "e", "n", "v", "i", "r", "o", "n">>, s, m[1], m[2])
    \/ Contains(<<"p", "r", "o", "c", "e", "s", "s", ".", "e", "n", "v">>, s, m[1], m[2])

SecretsAt(f, position) ==
    {i \in DOMAIN vulns[f] :
        vulns[f][i].type = "hardcoded_secret" /\ vulns[f][i].location.position = position}

\* C13: after one scan of a fresh record of a recognized language, a
\* credential assignment whose matched text holds an environment-lookup
\* idiom has no hardcoded_secret entry and costs nothing, and any other
\* credential assignment has exactly one, of level HIGH_RISK.
C13_SecretSuppression ==
    \A f \in FileIds :
        (ScannedOnce(f) /\ file[f].language \in RecognizedLanguages) =>
            LET ms == CredentialMatches[file[f]]
                literal == {k \in DOMAIN ms : ~HasEnvIdiom(file[f].content, ms[k])}
            IN  /\ \A k \in DOMAIN ms :
                      IF HasEnvIdiom(file[f].content, ms[k])
                      THEN SecretsAt(f, ms[k][1]) = {}
                      ELSE /\ Cardinality(SecretsAt(f, ms[k][1])) = 1
                           /\ \A i \in SecretsAt(f, ms[k][1]) : vulns[f][i].level = "HIGH_RISK"
                /\ Cardinality({i \in DOMAIN vulns[f] : vulns[f][i].type = "hardcoded_secret"})
                      = Cardinality(literal)
                /\ score[f] = Max(0, FreshScore - SumPenalties(vulns[f]))

\* C13 witness: token = "os.environ" scanned to no entry and score 100,
\* token = "os_environ" scanned to one HIGH_RISK hardcoded_secret
C13_Witness ==
    \E f, g \in FileIds :
        /\ ScannedOnce(f) /\ ScannedOnce(g)
        /\ file[f] = ExtraSamples[1]
        /\ file[g] = ExtraSamples[2]
        /\ vulns[f] = <<>> /\ score[f] = 100
        /\ Len(vulns[g]) = 1
        /\ vulns[g][1].type = "hardcoded_secret"
        /\ vulns[g][1].level = "HIGH_RISK"
        /\ score[g] = 85

\* the content of the end-to-end example: password = "s3cr3t" on line 1,
\* os.system(user_input) on line 2
EndToEndExample == Samples[1]

\* C14: one scan of the end-to-end example on a fresh record leaves exactly
\* two entries, a hardcoded_secret (HIGH_RISK, line 1) and an
\* os_command_injection (HIGH_RISK, line 2), and the score 70.
C14_EndToEnd ==
    \A f \in FileIds :
        (ScannedOnce(f) /\ file[f] = EndToEndExample) =>
            /\ Len(vulns[f]) = 2
            /\ \E i \in DOMAIN vulns[f] :
                  /\ vulns[f][i].type = "hardcoded_secret"
                  /\ vulns[f][i].level = "HIGH_RISK"
                  /\ vulns[f][i].location.line = 1
            /\ \E i \in DOMAIN vulns[f] :
                  /\ vulns[f][i].type = "os_command_injection"
                  /\ vulns[f][i].level = "HIGH_RISK"
                  /\ vulns[f][i].location.line = 2
            /\ score[f] = 70

\* C14 witness: the example has been scanned
C14_Witness ==
    \E f \in FileIds :
        /\ ScannedOnce(f)
        /\ file[f] = EndToEndExample
        /\ file[f].language = "python"
        /\ Len(file[f].content) = 41
        /\ vulns[f] # <<>>

LowercaseLabels == {"critical", "high", "medium", "low", "info"}

\* C15: the severity label of every recorded vulnerability is one of the
\* lowercase labels, and two recorded vulnerabilities carry the same label
\* exactly when they carry the same level.
C15_LabelOneToOne ==
    \A f \in FileIds :
        \A i, j \in DOMAIN vulns[f] :
            /\ vulns[f][i].severity \in LowercaseLabels
            /\ (vulns[f][i].severity = vulns[f][j].severity)
                  <=> (vulns[f][i].level = vulns[f][j].level)

\* C15 witness: every level has been recorded on one record
C15_Witness ==
    \E f \in FileIds :
        {vulns[f][i].level : i \in DOMAIN vulns[f]} = SecurityLevel

\* C16: the list of one scan of a fresh record holds no two entries of the
\* same type at the same position.
C16_NoDuplicateFinding ==
    \A f \in FileIds :
        calls[f] = 1 =>
            \A i, j \in DOMAIN vulns[f] :
                (i # j /\ vulns[f][i].type = vulns[f][j].type) =>
                    vulns[f][i].location.position # vulns[f][j].location.position

\* the files with at least one issue of type t
FilesWith(t) == {f \in FileIds : \E i \in DOMAIN vulns[f] : vulns[f][i].type = t}

\* C17: the table is printed exactly when some file has an issue, and the
\* number in each row is the number of files with an issue of the row's type.
C17_FilesAffected ==
    shown =>
        /\ security_table.printed <=> (\E f \in FileIds : vulns[f] # <<>>)
        /\ \A r \in DOMAIN security_table.rows :
              \E t \in AllTypes :
                  /\ security_table.rows[r][1] = IssueLabel(t)
                  /\ security_table.rows[r][2] = ToString(Cardinality(FilesWith(t)))

====
